---- MODULE Spec2Model ----
(***************************************************************************)
(* pvinspect.data: the Image / ImageSequence data model (image.py) and the *)
(* callers of it in io.py.                                                 *)
(*                                                                         *)
(* Python objects are records [cls, attrs]: cls is the class name, attrs   *)
(* maps the stored attribute names ("_data", "_path", ...) to values.      *)
(* A call ends in a record [out, val]: out = "ok" with the returned value, *)
(* out = "fatal" after logging.error + exit(), or out = the name of the    *)
(* exception raised.                                                       *)
(***************************************************************************)
EXTENDS Integers, Sequences, FiniteSets, TLC

VARIABLES pc, call, ret, received, cur, steps, heap, held

vars == <<pc, call, ret, received, cur, steps, heap, held>>

(***************************************************************************)
(* Bounds of the model.                                                    *)
(***************************************************************************)
\* numerators of the float values the model follows
MaxNum == 64
\* denominators of the float values the model follows are 2^0 .. 2^MaxDenExp
MaxDenExp == 3
\* longest list of images a sequence is built from
MaxLen == 2
\* longest chain of operations applied to a constructed sequence
MaxSteps == 2
\* accessor calls and mutations a caller makes on one sequence
MaxAccesses == 3
\* largest number of cell columns or rows of a module whose grid is asked for
MaxCells == 3
\* files in the directory the bulk reader is pointed at
MaxFiles == 3

(***************************************************************************)
(* Scalars.  A pixel value is a pair <<n, d>>: the number n/d.  Integer    *)
(* values have d = 1.  The IEEE specials are <<1,0>> (inf), <<-1,0>>       *)
(* (-inf) and <<0,0>> (nan).  Unrep marks a float result outside the range *)
(* of values the model follows exactly (not a small dyadic rational, a     *)
(* negative zero, or an operation of a non-finite operand that the model   *)
(* does not evaluate).                                                     *)
(***************************************************************************)
PInf == <<1, 0>>
NInf == <<-1, 0>>
NaN == <<0, 0>>
Unrep == <<0, -1>>

Abs(x) == IF x < 0 THEN -x ELSE x
Max(a, b) == IF a >= b THEN a ELSE b
Sign(x) == IF x > 0 THEN 1 ELSE IF x < 0 THEN -1 ELSE 0

RECURSIVE GCD(_, _)
GCD(a, b) == IF b = 0 THEN a ELSE GCD(b, a % b)

IsFinite(v) == v[2] > 0
IsInf(v) == v[2] = 0 /\ v[1] # 0
IsPow2(d) == \E k \in 0..MaxDenExp : d = 2^k

\* n/d in lowest terms with a positive denominator, or Unrep when the model
\* does not follow the value
Rat(n, d) ==
    LET s == IF d < 0 THEN -1 ELSE 1
        g == GCD(Abs(n), Abs(d))
        v == <<(s * n) \div g, (s * d) \div g>>
    IN  IF IsPow2(v[2]) /\ Abs(v[1]) <= MaxNum THEN v ELSE Unrep

\* floor(n/d), d # 0
Floor(n, d) == IF d > 0 THEN n \div d ELSE (-n) \div (-d)

FAdd(x, y) ==
    IF x = Unrep \/ y = Unrep THEN Unrep
    ELSE IF x = NaN \/ y = NaN THEN NaN
    ELSE IF IsInf(x) THEN (IF IsInf(y) /\ y # x THEN NaN ELSE x)
    ELSE IF IsInf(y) THEN y
    ELSE Rat(x[1] * y[2] + y[1] * x[2], x[2] * y[2])

FNeg(x) == IF x = Unrep THEN Unrep ELSE <<-x[1], x[2]>>

FSub(x, y) == FAdd(x, FNeg(y))

FMul(x, y) ==
    IF x = Unrep \/ y = Unrep THEN Unrep
    ELSE IF x = NaN \/ y = NaN THEN NaN
    ELSE IF IsInf(x) \/ IsInf(y)
         THEN (IF x[1] = 0 \/ y[1] = 0 THEN NaN
               ELSE IF Sign(x[1]) * Sign(y[1]) > 0 THEN PInf ELSE NInf)
    ELSE IF x[1] * y[1] = 0 /\ (x[1] < 0 \/ y[1] < 0) THEN Unrep   \* -0.0
    ELSE Rat(x[1] * y[1], x[2] * y[2])

FDiv(x, y) ==
    IF x = Unrep \/ y = Unrep THEN Unrep
    ELSE IF x = NaN \/ y = NaN THEN NaN
    ELSE IF IsInf(x)
         THEN (IF IsInf(y) THEN NaN
               ELSE IF y[1] < 0 THEN FNeg(x) ELSE x)
    ELSE IF IsInf(y)
         THEN (IF x[1] < 0 \/ y = NInf THEN Unrep ELSE <<0, 1>>)  \* -0.0
    ELSE IF y[1] = 0
         THEN (IF x[1] = 0 THEN NaN ELSE IF x[1] > 0 THEN PInf ELSE NInf)
    ELSE IF x[1] = 0 /\ y[1] < 0 THEN Unrep                        \* -0.0
    ELSE Rat(x[1] * y[2], x[2] * y[1])

FFloorDiv(x, y) ==
    IF x = Unrep \/ y = Unrep THEN Unrep
    ELSE IF ~IsFinite(x) \/ ~IsFinite(y) \/ y[1] = 0 THEN Unrep
    ELSE IF x[1] = 0 /\ y[1] < 0 THEN Unrep                        \* -0.0
    ELSE Rat(Floor(x[1] * y[2], x[2] * y[1]), 1)

FMod(x, y) ==
    IF x = Unrep \/ y = Unrep THEN Unrep
    ELSE IF ~IsFinite(x) \/ ~IsFinite(y) THEN Unrep
    ELSE IF y[1] = 0 THEN NaN
    ELSE LET q == Floor(x[1] * y[2], x[2] * y[1])
             r == FSub(x, FMul(<<q, 1>>, y))
         IN  IF q = 0 THEN (IF x[1] = 0 /\ y[1] < 0 THEN Unrep ELSE x)
             ELSE IF r = <<0, 1>> /\ y[1] < 0 THEN Unrep           \* -0.0
             ELSE r

RECURSIVE FPowN(_, _)
FPowN(x, k) == IF k = 0 THEN <<1, 1>> ELSE FMul(FPowN(x, k - 1), x)

FPow(x, y) ==
    IF x = Unrep \/ y = Unrep THEN Unrep
    ELSE IF ~IsFinite(x) \/ ~IsFinite(y) THEN Unrep
    ELSE IF y[1] = 0 THEN <<1, 1>>
    ELSE IF x = <<1, 1>> THEN <<1, 1>>
    ELSE IF x[1] = 0 THEN (IF y[1] > 0 THEN <<0, 1>> ELSE PInf)
    ELSE IF y[2] # 1 THEN Unrep
    ELSE IF y[1] > 0 THEN FPowN(x, y[1])
    ELSE FDiv(<<1, 1>>, FPowN(x, -y[1]))

\* uint16 arithmetic wraps modulo 2^16
Wrap == 2^16

\* (a * b) % Wrap without leaving 32-bit integers
MulMod(a, b) ==
    ((a % 256) * b + (((a \div 256) * b) % Wrap) * 256) % Wrap

RECURSIVE UPowN(_, _)
UPowN(a, e) ==
    IF e = 0 THEN 1
    ELSE LET h  == UPowN(a, e \div 2)
             sq == MulMod(h, h)
         IN  IF e % 2 = 1 THEN MulMod(sq, a) ELSE sq

IsFloat(dt) == dt \in {"float32", "float64"}

\* numpy's scalar operation in the computation dtype dt
ScalarOp(op, dt, x, y) ==
    IF IsFloat(dt)
    THEN CASE op = "+"  -> FAdd(x, y)
           [] op = "-"  -> FSub(x, y)
           [] op = "*"  -> FMul(x, y)
           [] op = "/"  -> FDiv(x, y)
           [] op = "//" -> FFloorDiv(x, y)
           [] op = "%"  -> FMod(x, y)
           [] op = "**" -> FPow(x, y)
    ELSE CASE op = "+"  -> <<(x[1] + y[1]) % Wrap, 1>>
           [] op = "-"  -> <<(x[1] - y[1]) % Wrap, 1>>
           [] op = "*"  -> <<MulMod(x[1], y[1]), 1>>
           [] op = "//" -> <<IF y[1] = 0 THEN 0 ELSE x[1] \div y[1], 1>>
           [] op = "%"  -> <<IF y[1] = 0 THEN 0 ELSE x[1] % y[1], 1>>
           [] op = "**" -> <<UPowN(x[1], y[1]), 1>>

Ops == {"+", "-", "*", "/", "//", "%", "**"}

(***************************************************************************)
(* numpy arrays: [dtype, shape, vals], vals in row-major order.            *)
(***************************************************************************)
Ok(v) == [out |-> "ok", val |-> v]
Raise(e) == [out |-> e, val |-> <<>>]
\* logging.error(...) followed by exit(): the process ends here
exit == [out |-> "fatal", val |-> <<>>]

\* what follows a call that may not return: its outcome r when it failed,
\* else the continuation K on the value it returned
Bind(r, K(_)) == IF r.out # "ok" THEN r ELSE K(r.val)

Size(shape) == shape[1] * shape[2]

Array(dt, shape, vals) == [dtype |-> dt, shape |-> shape, vals |-> vals]

Followed(arr) == \A k \in DOMAIN arr.vals : arr.vals[k] # Unrep

\* numpy type promotion of a binary operator
ResultType(op, da, db) ==
    IF IsFloat(da) /\ IsFloat(db) THEN (IF da = db THEN da ELSE "float64")
    ELSE IF IsFloat(da) THEN da
    ELSE IF IsFloat(db) THEN db
    ELSE IF op = "/" THEN "float64"
    ELSE da

Broadcastable(sa, sb) ==
    \A k \in 1..2 : sa[k] = sb[k] \/ sa[k] = 1 \/ sb[k] = 1

\* element (i, j), 0-based, of arr broadcast to a larger shape
At(arr, i, j) ==
    arr.vals[(IF arr.shape[1] = 1 THEN 0 ELSE i) * arr.shape[2]
             + (IF arr.shape[2] = 1 THEN 0 ELSE j) + 1]

\* a op b on ndarrays: elementwise with broadcasting
np_op(op, a, b) ==
    IF ~Broadcastable(a.shape, b.shape) THEN Raise("ValueError")
    ELSE LET s  == <<Max(a.shape[1], b.shape[1]), Max(a.shape[2], b.shape[2])>>
             rt == ResultType(op, a.dtype, b.dtype)
         IN  Ok(Array(rt, s,
                 [k \in 1..Size(s) |->
                    ScalarOp(op, rt, At(a, (k - 1) \div s[2], (k - 1) % s[2]),
                                     At(b, (k - 1) \div s[2], (k - 1) % s[2]))]))

\* round n/d (n >= 0, d > 0) to the nearest integer, ties to even (np.rint)
Rint(n, d) ==
    LET q == n \div d
        r == 2 * (n % d)
    IN  IF r < d THEN q
        ELSE IF r > d THEN q + 1
        ELSE IF q % 2 = 0 THEN q ELSE q + 1

\* skimage.img_as_uint: rescale to uint16
img_as_uint(arr) ==
    IF arr.dtype = "uint16" THEN Ok(arr)
    ELSE IF arr.dtype = "uint8"
    THEN Ok(Array("uint16", arr.shape,
                  [k \in DOMAIN arr.vals |-> <<arr.vals[k][1] * 257, 1>>]))
    ELSE IF \E k \in DOMAIN arr.vals :
               \/ IsInf(arr.vals[k])
               \/ IsFinite(arr.vals[k]) /\ Abs(arr.vals[k][1]) > arr.vals[k][2]
    THEN Raise("ValueError")
    ELSE Ok(Array("uint16", arr.shape,
                  [k \in DOMAIN arr.vals |->
                     LET v == arr.vals[k]
                     IN  IF v = NaN THEN Unrep
                         ELSE IF v[1] < 0 THEN <<0, 1>>
                         ELSE <<Rint(v[1] * (Wrap - 1), v[2]), 1>>]))

\* skimage.img_as_float: integer images are rescaled to [0, 1] as float64,
\* float images are returned as they are
img_as_float(arr) ==
    IF IsFloat(arr.dtype) THEN Ok(arr)
    ELSE LET top == IF arr.dtype = "uint8" THEN 255 ELSE Wrap - 1
         IN  Ok(Array("float64", arr.shape,
                  [k \in DOMAIN arr.vals |-> Rat(arr.vals[k][1], top)]))


(***************************************************************************)
(* Objects.  None is <<>>; an optional integer v is <<v>>.                 *)
(***************************************************************************)
None == <<>>
Some(v) == <<v>>

EL_IMAGE == 0
PL_IMAGE == 1

Object(cls, attrs) == [cls |-> cls, attrs |-> attrs]

ImageClasses == {"Image", "CellImage", "ModuleImage", "PartialModuleImage"}
SequenceClasses == {"ImageSequence", "CellImageSequence", "ModuleImageSequence"}

\* the classes cls derives from, cls itself included
Bases(cls) ==
    CASE cls = "Image"               -> {"Image"}
      [] cls = "CellImage"           -> {"CellImage", "Image"}
      [] cls = "ModuleImage"         -> {"ModuleImage", "Image"}
      [] cls = "PartialModuleImage"  -> {"PartialModuleImage", "ModuleImage", "Image"}
      [] cls = "ImageSequence"       -> {"ImageSequence"}
      [] cls = "CellImageSequence"   -> {"CellImageSequence", "ImageSequence"}
      [] cls = "ModuleImageSequence" -> {"ModuleImageSequence", "ImageSequence"}
      [] OTHER                       -> {cls}

isinstance(obj, cls) == cls \in Bases(obj.cls)

\* inspect.getfullargspec(cls.__init__)[0] without 'self'
InitArgs(cls) ==
    CASE cls = "Image"               -> <<"data", "path", "modality">>
      [] cls = "CellImage"           -> <<"data", "modality", "path", "row", "col">>
      [] cls = "ModuleImage"         ->
            <<"data", "modality", "path", "cols", "rows", "transform">>
      [] cls = "PartialModuleImage"  ->
            <<"data", "modality", "path", "cols", "rows", "first_col",
              "first_row", "transform">>
      [] cls = "ImageSequence"       ->
            <<"images", "same_camera", "allow_different_dtypes">>
      [] cls = "CellImageSequence"   -> <<"images", "copy">>
      [] cls = "ModuleImageSequence" ->
            <<"images", "same_camera", "allow_different_dtypes">>

\* the default values of the parameters of cls.__init__
Defaults(cls) ==
    CASE cls = "Image"               -> [modality |-> None]
      [] cls = "CellImage"           -> <<>>
      [] cls = "ModuleImage"         ->
            [cols |-> None, rows |-> None, transform |-> None]
      [] cls = "PartialModuleImage"  ->
            [cols |-> None, rows |-> None, first_col |-> None,
             first_row |-> None, transform |-> None]
      [] cls = "ImageSequence"       -> [allow_different_dtypes |-> FALSE]
      [] cls = "CellImageSequence"   -> [copy |-> TRUE]
      [] cls = "ModuleImageSequence" -> [allow_different_dtypes |-> FALSE]

Range(f) == {f[x] : x \in DOMAIN f}

\* Image.__init__: non-float data is converted to uint16
Image__init__(data, path, modality) ==
    Bind(IF data.dtype # "float32" /\ data.dtype # "float64"
         THEN img_as_uint(data) ELSE Ok(data),
         LAMBDA d : Ok([_data |-> d, _path |-> path, _modality |-> modality]))

CellImage__init__(data, modality, path, row, col) ==
    Bind(Image__init__(data, path, modality),
         LAMBDA b : Ok(b @@ [_row |-> row, _col |-> col]))

ModuleImage__init__(data, modality, path, cols, rows, transform) ==
    Bind(Image__init__(data, path, modality),
         LAMBDA b : Ok(b @@ [_cols |-> cols, _rows |-> rows,
                             _transform |-> transform]))

PartialModuleImage__init__(data, modality, path, cols, rows, first_col, first_row, transform) ==
    Bind(ModuleImage__init__(data, modality, path, cols, rows, transform),
         LAMBDA b : Ok(b @@ [_first_col |-> first_col, _first_row |-> first_row]))

\* the properties of an image
Image_data(img) == img.attrs._data
Image_path(img) == img.attrs._path
Image_dtype(img) == Image_data(img).dtype
Image_shape(img) == Image_data(img).shape
Image_modality(img) == img.attrs._modality
ModuleImage_cols(img) == img.attrs._cols
ModuleImage_rows(img) == img.attrs._rows

\* np.mgrid[0:nx:1, 0:ny:1] flattened and stacked along axis 1: row k holds
\* (k div ny, k mod ny)
Lattice(nx, ny) ==
    Array("int64", <<nx * ny, 2>>,
          [k \in 1..(2 * nx * ny) |->
             IF k % 2 = 1 THEN <<((k - 1) \div 2) \div ny, 1>>
                          ELSE <<((k - 1) \div 2) % ny, 1>>])

\* a grid with one point per cell instead of one per cell corner
ModuleImage_gridOfCells(self) ==
    IF self.attrs._cols # None /\ self.attrs._rows # None
    THEN Ok(Lattice(ModuleImage_cols(self)[1], ModuleImage_rows(self)[1]))
    ELSE exit

\* ModuleImage.grid
ModuleImage_grid(self) ==
    IF self.attrs._cols # None /\ self.attrs._rows # None
    THEN Ok(Lattice(ModuleImage_cols(self)[1] + 1, ModuleImage_rows(self)[1] + 1))
    ELSE exit

\* ImageSequence.__init__ without the dtype check
ImageSequence__init__NoDtypeCheck(images, same_camera, allow_different_dtypes) ==
    IF Len(images) = 0 THEN exit
    ELSE IF \E i \in 1..Len(images) :
               \/ Image_shape(images[i]) # Image_shape(images[1]) /\ same_camera
               \/ Image_modality(images[i]) # Image_modality(images[1])
         THEN exit
    ELSE Ok([_images |-> images, _same_camera |-> same_camera,
             _allow_different_dtypes |-> allow_different_dtypes])

ImageSequence__init__(images, same_camera, allow_different_dtypes) ==
    IF Len(images) = 0 THEN exit
    ELSE IF \E i \in 1..Len(images) :
               \/ Image_dtype(images[i]) # Image_dtype(images[1])
                    /\ ~allow_different_dtypes
               \/ Image_shape(images[i]) # Image_shape(images[1]) /\ same_camera
               \/ Image_modality(images[i]) # Image_modality(images[1])
         THEN exit
    ELSE Ok([_images |-> images, _same_camera |-> same_camera,
             _allow_different_dtypes |-> allow_different_dtypes])

\* CellImageSequence.__init__: super().__init__(images, False, copy)
CellImageSequence__init__(images, copy) ==
    ImageSequence__init__(images, FALSE, copy)

\* ModuleImageSequence.__init__ without the geometry loop
ModuleImageSequence__init__NoGeometryCheck(images, same_camera, allow_different_dtypes) ==
    IF Len(images) = 0 THEN Raise("IndexError")
    ELSE ImageSequence__init__(images, same_camera, allow_different_dtypes)

\* ModuleImageSequence.__init__: images[0] is read before any length check;
\* the first image, in order, that has no cols/rows or differs decides
ModuleImageSequence__init__(images, same_camera, allow_different_dtypes) ==
    IF Len(images) = 0 THEN Raise("IndexError")
    ELSE LET NoGeom(i) == ~({"_cols", "_rows"} \subseteq DOMAIN images[i].attrs)
             Differs(i) == \/ ModuleImage_cols(images[i]) # ModuleImage_cols(images[1])
                           \/ ModuleImage_rows(images[i]) # ModuleImage_rows(images[1])
             Bad == {i \in 1..Len(images) : NoGeom(i) \/ NoGeom(1) \/ Differs(i)}
         IN  IF Bad = {}
             THEN ImageSequence__init__(images, same_camera, allow_different_dtypes)
             ELSE IF NoGeom(1) \/ NoGeom(CHOOSE i \in Bad : \A j \in Bad : i <= j)
                  THEN Raise("AttributeError")
                  ELSE exit

\* cls.__init__(**args) for complete keyword arguments args
Init_(cls, a) ==
    CASE cls = "Image"               -> Image__init__(a.data, a.path, a.modality)
      [] cls = "CellImage"           ->
            CellImage__init__(a.data, a.modality, a.path, a.row, a.col)
      [] cls = "ModuleImage"         ->
            ModuleImage__init__(a.data, a.modality, a.path, a.cols, a.rows,
                                a.transform)
      [] cls = "PartialModuleImage"  ->
            PartialModuleImage__init__(a.data, a.modality, a.path, a.cols, a.rows,
                                       a.first_col, a.first_row, a.transform)
      [] cls = "ImageSequence"       ->
            ImageSequence__init__(a.images, a.same_camera,
                                  a.allow_different_dtypes)
      [] cls = "CellImageSequence"   -> CellImageSequence__init__(a.images, a.copy)
      [] cls = "ModuleImageSequence" ->
            ModuleImageSequence__init__(a.images, a.same_camera,
                                        a.allow_different_dtypes)

\* the call cls(**kw): Python binds the keywords to the parameters of
\* cls.__init__ (TypeError for an unknown or a missing one), then runs it
New(cls, kw) ==
    IF \/ ~(DOMAIN kw \subseteq Range(InitArgs(cls)))
       \/ \E p \in Range(InitArgs(cls)) :
             p \notin DOMAIN kw /\ p \notin DOMAIN Defaults(cls)
    THEN Raise("TypeError")
    ELSE Bind(Init_(cls, kw @@ Defaults(cls)), LAMBDA attrs : Ok(Object(cls, attrs)))

\* _Base.from_other that reads every field from other, overrides ignored
from_otherIgnoringOverrides(cls, other, kwargs) ==
    IF \E name \in Range(InitArgs(cls)) : ("_" \o name) \notin DOMAIN other.attrs
    THEN Raise("AttributeError")
    ELSE New(cls, [name \in Range(InitArgs(cls)) |-> other.attrs["_" \o name]])

\* _Base.from_other: every constructor parameter that is not overridden is
\* read from the attribute of other named '_' + parameter
from_other(cls, other, kwargs) ==
    IF \E name \in Range(InitArgs(cls)) \ DOMAIN kwargs :
          ("_" \o name) \notin DOMAIN other.attrs
    THEN Raise("AttributeError")
    ELSE New(cls, kwargs @@ [name \in Range(InitArgs(cls)) \ DOMAIN kwargs |->
                               other.attrs["_" \o name]])


(***************************************************************************)
(* Image operations.                                                       *)
(***************************************************************************)
\* arithmetic that accepts any pair of dtypes
DtypesUnchecked(op, self, other) == TRUE

\* the dtype precondition of Image.__add__ ... Image.__pow__
DtypesCompatible(op, self, other) ==
    IF op = "/"
    THEN IsFloat(Image_dtype(self)) /\ IsFloat(Image_dtype(other))
    ELSE Image_dtype(self) = Image_dtype(other)

\* Image.__add__, __sub__, __mul__, __truediv__, __floordiv__, __mod__,
\* __pow__: self op other
Image_arith(op, self, other) ==
    IF ~DtypesCompatible(op, self, other) THEN Raise("RuntimeError")
    ELSE Bind(np_op(op, self.attrs._data, other.attrs._data),
              LAMBDA data : from_other(self.cls, self, [data |-> data]))

\* Image.as_type
Image_as_type(self, dtype) ==
    Bind(IF dtype = "float32" \/ dtype = "float64"
         THEN img_as_float(self.attrs._data)
         ELSE img_as_uint(self.attrs._data),
         LAMBDA data : from_other(self.cls, self, [data |-> data]))

(***************************************************************************)
(* Sequence operations.                                                    *)
(***************************************************************************)
\* the outcome of building a list element by element: the first element
\* that fails ends the loop with its outcome
Collect(rs) ==
    LET bad == {i \in 1..Len(rs) : rs[i].out # "ok"}
    IN  IF bad = {} THEN Ok([i \in 1..Len(rs) |-> rs[i].val])
        ELSE rs[CHOOSE i \in bad : \A j \in bad : i <= j]

\* the properties of a sequence
ImageSequence_images(self) == self.attrs._images
ImageSequence_len(self) == Len(ImageSequence_images(self))
ImageSequence_getitem(self, i) == ImageSequence_images(self)[i + 1]
ImageSequence_dtype(self) ==
    IF ~self.attrs._allow_different_dtypes
    THEN Some(Image_dtype(ImageSequence_images(self)[1])) ELSE None
ImageSequence_shape(self) ==
    IF self.attrs._same_camera
    THEN Some(Image_shape(ImageSequence_images(self)[1])) ELSE None
ImageSequence_modality(self) == Image_modality(ImageSequence_images(self)[1])
ImageSequence_same_camera(self) == self.attrs._same_camera

\* the data functions handed to apply_image_data
Fns == {"copy", "negative", "flip", "first_column", "as_uint8"}

Fn(fn, data) ==
    CASE fn = "copy"         -> data
      [] fn = "negative"     ->
            Array(data.dtype, data.shape,
                  [k \in DOMAIN data.vals |->
                     ScalarOp("-", data.dtype, <<0, 1>>, data.vals[k])])
      [] fn = "flip"         ->
            Array(data.dtype, data.shape,
                  [k \in DOMAIN data.vals |->
                     data.vals[((k - 1) \div data.shape[2]) * data.shape[2]
                               + data.shape[2] - ((k - 1) % data.shape[2])]])
      [] fn = "first_column" ->
            Array(data.dtype, <<data.shape[1], 1>>,
                  [k \in 1..data.shape[1] |->
                     data.vals[(k - 1) * data.shape[2] + 1]])
      [] fn = "as_uint8"     ->
            Array("uint8", data.shape,
                  [k \in DOMAIN data.vals |->
                     IF IsFloat(data.dtype) THEN <<0, 1>>
                     ELSE <<data.vals[k][1] % 256, 1>>])

\* ImageSequence.apply_image_data
apply_image_data(self, fn) ==
    Bind(Collect([i \in 1..Len(self.attrs._images) |->
                    from_other(self.attrs._images[i].cls, self.attrs._images[i],
                               [data |-> Fn(fn, Image_data(self.attrs._images[i]))])]),
         LAMBDA images : from_other(self.cls, self, [images |-> images]))

\* ImageSequence.as_type
ImageSequence_as_type(self, dtype) ==
    Bind(Collect([i \in 1..Len(self.attrs._images) |->
                    Image_as_type(self.attrs._images[i], dtype)]),
         LAMBDA images : from_other(self.cls, self, [images |-> images]))

Min(a, b) == IF a <= b THEN a ELSE b

\* zip(xs, ys): pairs by position, as many as the shorter list has
zip(xs, ys) == [i \in 1..Min(Len(xs), Len(ys)) |-> <<xs[i], ys[i]>>]

\* [x op y for x, y in pairs]
ArithPairs(op, pairs) ==
    [i \in 1..Len(pairs) |-> Image_arith(op, pairs[i][1], pairs[i][2])]

\* ImageSequence.__add__ ... ImageSequence.__pow__: self op other
ImageSequence_arith(op, self, other) ==
    Bind(Collect(ArithPairs(op, zip(ImageSequence_images(self),
                                    ImageSequence_images(other)))),
         LAMBDA images : from_other(self.cls, self, [images |-> images]))


(***************************************************************************)
(* The sequence adapter _sequence.                                         *)
(***************************************************************************)
\* Python values that are neither images nor sequences
PyTuple(items) == Object("tuple", [items |-> items])
PyInt(v) == Object("int", [value |-> v])

\* how the decorator is applied, and the disable_unwrap it binds
Decorations == {"@_sequence", "@_sequence()", "@_sequence(True)", "@_sequence(False)"}

disable_unwrap(decoration) ==
    CASE decoration = "@_sequence"        -> FALSE
      [] decoration = "@_sequence()"      -> FALSE
      [] decoration = "@_sequence(True)"  -> TRUE
      [] decoration = "@_sequence(False)" -> FALSE

\* the wrapped functions: each takes a sequence
Funcs == {"same", "negative", "with_count", "count", "pair"}

Func(func, sequence) ==
    CASE func = "same"       -> Ok(sequence)
      [] func = "negative"   -> apply_image_data(sequence, "negative")
      [] func = "with_count" -> Ok(PyTuple(<<sequence, PyInt(ImageSequence_len(sequence))>>))
      [] func = "count"      -> Ok(PyInt(ImageSequence_len(sequence)))
      [] func = "pair"       -> Ok(PyTuple(<<PyInt(0), PyInt(ImageSequence_len(sequence))>>))

\* wrapper_sequence, first half: the first argument the function is called with
wrapper_argument(arg) ==
    IF ~isinstance(arg, "ImageSequence")
    THEN (IF arg.cls = "ModuleImage"
          THEN New("ModuleImageSequence", [images |-> <<arg>>, same_camera |-> FALSE])
          ELSE New("ImageSequence", [images |-> <<arg>>, same_camera |-> FALSE]))
    ELSE Ok(arg)

\* the unwrap step that unwraps whatever the decoration says
unwrap_resultIgnoringDisable(unwrap, decoration, res) ==
    IF unwrap /\ isinstance(res, "ImageSequence")
    THEN Ok(ImageSequence_images(res)[1])
    ELSE Ok(res)

\* wrapper_sequence, second half: what is done with the value res that the
\* function returned
unwrap_result(unwrap, decoration, res) ==
    IF unwrap /\ ~disable_unwrap(decoration)
    THEN (IF isinstance(res, "tuple")
             /\ isinstance(res.attrs.items[1], "ImageSequence")
          THEN Raise("TypeError")   \* res[0] = ... on a tuple
          ELSE IF isinstance(res, "ImageSequence")
          THEN Ok(ImageSequence_images(res)[1])
          ELSE Ok(res))
    ELSE Ok(res)

\* wrapper_sequence: what the decorated function returns to its caller
wrapper_sequence(decoration, func, arg) ==
    Bind(Bind(wrapper_argument(arg), LAMBDA sequence : Func(func, sequence)),
         LAMBDA res : unwrap_result(~isinstance(arg, "ImageSequence"),
                                    decoration, res))

(***************************************************************************)
(* Inputs.                                                                 *)
(***************************************************************************)
\* metadata variants: A is the reference, the others differ from it in the
\* field their name says
MetaA == [path |-> "a.png", modality |-> Some(EL_IMAGE), cols |-> Some(6),
          rows |-> Some(10), row |-> 2, col |-> 5]
MetaB == [path |-> "b.png", modality |-> Some(PL_IMAGE), cols |-> Some(3),
          rows |-> Some(4), row |-> 0, col |-> 1]
MetaModality == [MetaA EXCEPT !.modality = Some(PL_IMAGE)]
MetaCols == [MetaA EXCEPT !.cols = Some(3)]
MetaRows == [MetaA EXCEPT !.rows = None]

\* the keyword arguments of cls(data, ...) for a metadata variant
Kw(cls, data, m) ==
    CASE cls = "Image"              ->
            [data |-> data, path |-> m.path, modality |-> m.modality]
      [] cls = "CellImage"          ->
            [data |-> data, modality |-> m.modality, path |-> m.path,
             row |-> m.row, col |-> m.col]
      [] cls = "ModuleImage"        ->
            [data |-> data, modality |-> m.modality, path |-> m.path,
             cols |-> m.cols, rows |-> m.rows, transform |-> Some("transform")]
      [] cls = "PartialModuleImage" ->
            [data |-> data, modality |-> m.modality, path |-> m.path,
             cols |-> m.cols, rows |-> m.rows, first_col |-> Some(1),
             first_row |-> Some(0)]

MkImage(cls, data, m) == New(cls, Kw(cls, data, m)).val

U16(shape, ns) == Array("uint16", shape, [k \in DOMAIN ns |-> <<ns[k], 1>>])

\* arrays as read from files or computed by a caller
ArithArrays ==
    { U16(<<1, 1>>, <<0>>),
      Array("uint8", <<1, 1>>, << <<255, 1>> >>),
      U16(<<1, 2>>, <<2, 3>>),
      U16(<<1, 3>>, <<1, 2, 65535>>),
      Array("float32", <<1, 1>>, << <<0, 1>> >>),
      Array("float32", <<1, 1>>, << <<1, 2>> >>),
      Array("float32", <<1, 2>>, << <<-1, 1>>, <<2, 1>> >>),
      Array("float32", <<1, 3>>, << <<1, 1>>, <<3, 1>>, <<1, 4>> >>),
      Array("float64", <<1, 1>>, << <<2, 1>> >>),
      Array("float64", <<1, 2>>, << <<1, 2>>, <<0, 1>> >>),
      Array("float64", <<2, 1>>, << <<1, 1>>, <<3, 1>> >>) }

ImageArithCalls ==
    { [name |-> "image_arith", op |-> op,
       self |-> MkImage(c1, d1, MetaA), other |-> MkImage(c2, d2, MetaB)] :
        op \in Ops, c1 \in ImageClasses, d1 \in ArithArrays,
        c2 \in {"Image", "ModuleImage"}, d2 \in ArithArrays }

DataU == U16(<<1, 2>>, <<1, 65535>>)
DataU2 == U16(<<1, 2>>, <<2, 3>>)
DataF32 == Array("float32", <<1, 2>>, << <<1, 2>>, <<1, 1>> >>)
DataF64 == Array("float64", <<1, 1>>, << <<2, 1>> >>)

\* module images a ModuleImageSequence is built from
ModulePool ==
    { MkImage("ModuleImage", DataU, MetaA),
      MkImage("ModuleImage", DataF32, MetaA),
      MkImage("PartialModuleImage", DataF64, MetaA),
      MkImage("ModuleImage", DataU2, MetaModality),
      MkImage("ModuleImage", DataU2, MetaCols),
      MkImage("PartialModuleImage", DataU, MetaRows) }

\* images of any kind an ImageSequence is built from
ImagePool ==
    { MkImage("Image", DataU, MetaA),
      MkImage("Image", DataF32, MetaA),
      MkImage("CellImage", DataF64, MetaA),
      MkImage("ModuleImage", DataU2, MetaA),
      MkImage("Image", DataU2, MetaModality) }

\* cell images a CellImageSequence is built from
CellPool ==
    { MkImage("CellImage", DataU, MetaA),
      MkImage("CellImage", DataF32, MetaA),
      MkImage("CellImage", DataF64, MetaB),
      MkImage("CellImage", DataU2, MetaB) }

Lists(S, lo, hi) == UNION {[1..k -> S] : k \in lo..hi}

\* the ways a sequence constructor is called
SequenceKw(cls, lists) ==
    IF cls = "CellImageSequence"
    THEN {[images |-> l] : l \in lists}
           \cup {[images |-> l, copy |-> c] : l \in lists, c \in BOOLEAN}
    ELSE {[images |-> l, same_camera |-> sc] : l \in lists, sc \in BOOLEAN}
           \cup {[images |-> l, same_camera |-> sc, allow_different_dtypes |-> ad] :
                   l \in lists, sc \in BOOLEAN, ad \in BOOLEAN}

PoolOf(cls) ==
    CASE cls = "ImageSequence"       -> ImagePool
      [] cls = "CellImageSequence"   -> CellPool
      [] cls = "ModuleImageSequence" -> ModulePool

NewCalls ==
    UNION { { [name |-> "new", cls |-> cls, kw |-> kw] :
                kw \in SequenceKw(cls, Lists(PoolOf(cls), 0, MaxLen)) } :
            cls \in SequenceClasses }

\* the sequences that exist: every successful constructor call
Built(calls) ==
    {New(c.cls, c.kw).val : c \in {d \in calls : New(d.cls, d.kw).out = "ok"}}

\* operands of sequence operations
OperandPool(cls) ==
    CASE cls = "ImageSequence"       ->
            {MkImage("Image", DataU, MetaA), MkImage("ModuleImage", DataF32, MetaB),
             MkImage("Image", DataF64, MetaA)}
      [] cls = "CellImageSequence"   ->
            {MkImage("CellImage", DataU, MetaA), MkImage("CellImage", DataU2, MetaA)}
      [] cls = "ModuleImageSequence" ->
            {MkImage("ModuleImage", DataU2, MetaA),
             MkImage("PartialModuleImage", DataF32, MetaA),
             MkImage("ModuleImage", DataF64, MetaA)}

Flags == {[same_camera |-> FALSE, allow_different_dtypes |-> TRUE],
          [same_camera |-> TRUE, allow_different_dtypes |-> FALSE]}

OperandCalls(cls) ==
    IF cls = "CellImageSequence"
    THEN {[name |-> "new", cls |-> cls, kw |-> [images |-> l]] :
            l \in Lists(OperandPool(cls), 1, MaxLen)}
    ELSE {[name |-> "new", cls |-> cls, kw |-> [images |-> l] @@ f] :
            l \in Lists(OperandPool(cls), 1, MaxLen), f \in Flags}

Operands == UNION {Built(OperandCalls(cls)) : cls \in SequenceClasses}

OtherOperands ==
    Built({c \in OperandCalls("ImageSequence") : ~c.kw.same_camera})

SequenceArithCalls ==
    { [name |-> "sequence_arith", op |-> op, self |-> s, other |-> t] :
        op \in Ops, s \in Operands, t \in OtherOperands }

ApplyImageDataCalls ==
    { [name |-> "apply_image_data", self |-> s, fn |-> fn] :
        s \in Operands, fn \in Fns }

AdapterArguments ==
    {MkImage(cls, d, MetaA) : cls \in ImageClasses, d \in {DataU, DataF32}}
      \cup Built(OperandCalls("ModuleImageSequence"))

AdapterCalls ==
    { [name |-> "adapter", decoration |-> dec, func |-> func, arg |-> arg] :
        dec \in Decorations, func \in Funcs, arg \in AdapterArguments }

\* module images of every geometry, set or unset, whose grid is asked for
GridCalls ==
    { [name |-> "grid",
       self |-> MkImage(cls, DataU, [MetaA EXCEPT !.cols = c, !.rows = r])] :
        cls \in {"ModuleImage", "PartialModuleImage"},
        c \in {None} \cup {Some(n) : n \in 0..MaxCells},
        r \in {None} \cup {Some(n) : n \in 0..MaxCells} }

Calls == NewCalls \cup ImageArithCalls \cup SequenceArithCalls
           \cup ApplyImageDataCalls \cup AdapterCalls \cup GridCalls

(***************************************************************************)
(* One call of the library: the caller makes the call held in `call`, the  *)
(* outcome is left in `ret`.  After a fatal outcome the process is gone.   *)
(***************************************************************************)
After(r) == IF r.out = "fatal" THEN "exited" ELSE "returned"

InitCall ==
    /\ pc = "call"
    /\ call \in Calls
    /\ ret = None
    /\ received = None
    /\ cur = None
    /\ steps = 0
    /\ heap = <<>>
    /\ held = {}

Return(r) ==
    /\ pc = "call"
    /\ ret' = r
    /\ pc' = After(r)
    /\ UNCHANGED <<call, cur, steps, heap, held>>

CallNew ==
    /\ call.name = "new"
    /\ Return(New(call.cls, call.kw))
    /\ UNCHANGED received

CallImageArith ==
    /\ call.name = "image_arith"
    /\ Return(Image_arith(call.op, call.self, call.other))
    /\ UNCHANGED received

CallSequenceArith ==
    /\ call.name = "sequence_arith"
    /\ Return(ImageSequence_arith(call.op, call.self, call.other))
    /\ UNCHANGED received

CallApplyImageData ==
    /\ call.name = "apply_image_data"
    /\ Return(apply_image_data(call.self, call.fn))
    /\ UNCHANGED received

CallAdapter ==
    /\ call.name = "adapter"
    /\ Return(wrapper_sequence(call.decoration, call.func, call.arg))
    /\ received' = wrapper_argument(call.arg)

CallGrid ==
    /\ call.name = "grid"
    /\ Return(ModuleImage_grid(call.self))
    /\ UNCHANGED received

NextCall ==
    \/ CallGrid
    \/ CallNew
    \/ CallImageArith
    \/ CallSequenceArith
    \/ CallApplyImageData
    \/ CallAdapter

SpecCall == InitCall /\ [][NextCall]_vars

(***************************************************************************)
(* Properties of one call (SpecCall).                                      *)
(***************************************************************************)
Returned(name) == pc # "call" /\ call.name = name

\* the attributes of an image other than its data
Metadata(img) == [n \in DOMAIN img.attrs \ {"_data"} |-> img.attrs[n]]

\* C2: constructing a sequence of any type from zero images ends in the fatal
\* outcome, never in a sequence and never in an exception.
C2_EmptyListIsFatal ==
    (Returned("new") /\ Len(call.kw.images) = 0) => ret.out = "fatal"

\* C4: a CellImageSequence built with its default arguments from cell images
\* of differing dtype fails; when it is built, its dtype is the images' common
\* dtype and its shape is None.
C4_CellSequenceChecksDtype ==
    (Returned("new") /\ call.cls = "CellImageSequence"
       /\ DOMAIN call.kw = {"images"} /\ Len(call.kw.images) > 0)
    => /\ (\E i \in DOMAIN call.kw.images :
              Image_dtype(call.kw.images[i]) # Image_dtype(call.kw.images[1]))
          => ret.out = "fatal"
       /\ ret.out = "ok"
          => /\ ImageSequence_dtype(ret.val) = Some(Image_dtype(call.kw.images[1]))
             /\ ImageSequence_shape(ret.val) = None

\* operands whose dtypes the operator rejects: unequal dtypes, for / a non-float one
DtypeMismatch(c) ==
    IF c.op = "/"
    THEN ~(Image_dtype(c.self) \in {"float32", "float64"}
           /\ Image_dtype(c.other) \in {"float32", "float64"})
    ELSE Image_dtype(c.self) # Image_dtype(c.other)

\* C6 as stated: image arithmetic fails with the type-compatibility error
\* exactly on a dtype mismatch and leaves no result; in every other case a
\* result image is produced.
C6_ArithFailsOnlyOnDtype ==
    Returned("image_arith")
    => IF DtypeMismatch(call)
       THEN ret = Raise("RuntimeError")
       ELSE ret.out = "ok" /\ ret.val.cls \in ImageClasses

\* C6 amended: image arithmetic fails with the type-compatibility error on a
\* dtype mismatch and leaves no result; otherwise a result image is produced
\* when the operands' shapes broadcast, and numpy's ValueError is raised,
\* with no result image, when they do not.
C6_ArithPreconditions ==
    Returned("image_arith")
    => IF DtypeMismatch(call)
       THEN ret = Raise("RuntimeError")
       ELSE IF \A k \in 1..2 :
                 \/ Image_shape(call.self)[k] = Image_shape(call.other)[k]
                 \/ 1 \in {Image_shape(call.self)[k], Image_shape(call.other)[k]}
       THEN ret.out = "ok" /\ ret.val.cls \in ImageClasses
       ELSE ret = Raise("ValueError")

C6_Witness ==
    /\ Returned("image_arith")
    /\ call.op = "/"
    /\ Image_dtype(call.self) = "float32"
    /\ Image_dtype(call.other) = "uint16"
    /\ ret.out = "RuntimeError"

\* C7: when a op b succeeds the result has a's class and a's metadata, its
\* data is the elementwise op of a.data and b.data, and its dtype is a's when
\* the two dtypes are equal.
C7_ArithResult ==
    (Returned("image_arith") /\ ret.out = "ok")
    => LET a  == Image_data(call.self)
           b  == Image_data(call.other)
           r  == Image_data(ret.val)
           dt == IF a.dtype = b.dtype THEN a.dtype ELSE "float64"
       IN  /\ ret.val.cls = call.self.cls
           /\ Metadata(ret.val) = Metadata(call.self)
           /\ r.dtype = dt
           /\ r.shape = <<Max(a.shape[1], b.shape[1]), Max(a.shape[2], b.shape[2])>>
           /\ \A i \in 0..(r.shape[1] - 1) : \A j \in 0..(r.shape[2] - 1) :
                 r.vals[i * r.shape[2] + j + 1]
                   = ScalarOp(call.op, dt, At(a, i, j), At(b, i, j))

C7_Witness ==
    /\ Returned("image_arith")
    /\ ret.out = "ok"
    /\ call.op = "*"
    /\ call.self.cls = "PartialModuleImage"
    /\ Image_shape(call.self) = <<1, 3>>
    /\ Image_dtype(call.self) = "uint16"
    /\ Image_data(ret.val) # Image_data(call.self)

\* C8: sequence arithmetic on sequences of unequal length fails and produces
\* no sequence; on equal lengths the result, when there is one, pairs the
\* images by position and keeps s's class and flags.
C8_SequenceArithNeedsEqualLength ==
    Returned("sequence_arith")
    => IF ImageSequence_len(call.self) # ImageSequence_len(call.other)
       THEN ret.out # "ok"
       ELSE ret.out = "ok"
            => /\ ret.val.cls = call.self.cls
               /\ ImageSequence_len(ret.val) = ImageSequence_len(call.self)
               /\ ret.val.attrs._same_camera = call.self.attrs._same_camera
               /\ ret.val.attrs._allow_different_dtypes
                    = call.self.attrs._allow_different_dtypes
               /\ \A i \in 1..ImageSequence_len(call.self) :
                     Ok(ImageSequence_images(ret.val)[i])
                       = Image_arith(call.op, ImageSequence_images(call.self)[i],
                                     ImageSequence_images(call.other)[i])

\* the results of fn keep the invariants of the sequence s: normalised
\* dtypes, one dtype unless waived, one shape if same_camera
KeepsInvariants(s, fn) ==
    LET out == [i \in 1..ImageSequence_len(s) |->
                  Fn(fn, Image_data(ImageSequence_images(s)[i]))]
    IN  \A i \in DOMAIN out :
          /\ out[i].dtype \in {"uint16", "float32", "float64"}
          /\ s.attrs._allow_different_dtypes \/ out[i].dtype = out[1].dtype
          /\ ~s.attrs._same_camera \/ out[i].shape = out[1].shape

\* C9: apply_image_data(fn) on a sequence of any sequence type returns a
\* sequence of the same class, flags, length and order whose i-th image keeps
\* its class and metadata and holds fn of its data.
C9_ApplyImageData ==
    (Returned("apply_image_data") /\ KeepsInvariants(call.self, call.fn))
    => /\ ret.out = "ok"
       /\ ret.val.cls = call.self.cls
       /\ ret.val.attrs._same_camera = call.self.attrs._same_camera
       /\ ret.val.attrs._allow_different_dtypes
            = call.self.attrs._allow_different_dtypes
       /\ ImageSequence_len(ret.val) = ImageSequence_len(call.self)
       /\ \A i \in 1..ImageSequence_len(call.self) :
             LET old == ImageSequence_images(call.self)[i]
                 new == ImageSequence_images(ret.val)[i]
             IN  /\ new.cls = old.cls
                 /\ Metadata(new) = Metadata(old)
                 /\ Image_data(new) = Fn(call.fn, Image_data(old))

SingleImage(c) == c.arg.cls \in ImageClasses

\* C10: called with a single image, the wrapped function receives a length-1
\* sequence holding that image, a ModuleImageSequence when the image's class
\* is exactly ModuleImage and an ImageSequence otherwise; when the function
\* returns a sequence the caller gets its first image if unwrap is enabled
\* and the sequence itself if unwrap was disabled.
C10_AdapterSingleImage ==
    (Returned("adapter") /\ SingleImage(call))
    => /\ received.out = "ok"
       /\ received.val.cls = IF call.arg.cls = "ModuleImage"
                             THEN "ModuleImageSequence" ELSE "ImageSequence"
       /\ ImageSequence_images(received.val) = <<call.arg>>
       /\ LET f == Func(call.func, received.val)
          IN  (f.out = "ok" /\ f.val.cls \in SequenceClasses)
              => ret = IF call.decoration = "@_sequence(True)"
                       THEN f
                       ELSE Ok(ImageSequence_images(f.val)[1])

C10_Witness ==
    /\ Returned("adapter")
    /\ call.arg.cls = "ModuleImage"
    /\ call.decoration = "@_sequence(True)"
    /\ call.func = "negative"
    /\ ret.out = "ok"
    /\ ret.val.cls = "ModuleImageSequence"
    /\ ImageSequence_images(ret.val) # <<call.arg>>

\* C11: called with a single image and unwrap enabled, when the function
\* returns a tuple whose first member is a sequence the caller gets the tuple
\* with that member replaced by the sequence's first image and the other
\* members as they were; the call does not fail.
C11_AdapterTupleResult ==
    (Returned("adapter") /\ SingleImage(call) /\ ~disable_unwrap(call.decoration)
       /\ received.out = "ok"
       /\ Func(call.func, received.val).out = "ok"
       /\ isinstance(Func(call.func, received.val).val, "tuple")
       /\ isinstance(Func(call.func, received.val).val.attrs.items[1], "ImageSequence"))
    => ret = Ok(PyTuple(
                 <<ImageSequence_images(
                     Func(call.func, received.val).val.attrs.items[1])[1]>>
                   \o Tail(Func(call.func, received.val).val.attrs.items)))


SequenceFollowed(sequence) ==
    \A i \in DOMAIN ImageSequence_images(sequence) :
        Followed(Image_data(ImageSequence_images(sequence)[i]))

\* a second operand with images of two dtypes and two shapes
MixedOperand ==
    New("ImageSequence",
        [images |-> <<MkImage("Image", DataF32, MetaA),
                      MkImage("ModuleImage", DataF64, MetaA)>>,
         same_camera |-> FALSE, allow_different_dtypes |-> TRUE]).val

Init ==
    /\ pc = "idle"
    /\ call = None
    /\ ret = None
    /\ received = None
    /\ cur = None
    /\ steps = 0
    /\ heap = <<>>
    /\ held = {}

\* the program makes the call c, which ends in r
Step(c, r) ==
    /\ pc = "idle"
    /\ r.out = "ok" => SequenceFollowed(r.val)
    /\ call' = c
    /\ ret' = [out |-> r.out, val |-> None]
    /\ cur' = IF r.out = "ok" THEN r.val ELSE IF r.out = "fatal" THEN None ELSE cur
    /\ pc' = IF r.out = "fatal" THEN "exited" ELSE "idle"
    /\ UNCHANGED <<received, heap, held>>

Construct ==
    /\ cur = None
    /\ \E c \in NewCalls : Step(c, New(c.cls, c.kw))
    /\ UNCHANGED steps

Derive ==
    /\ cur # None
    /\ steps < MaxSteps
    /\ steps' = steps + 1

ApplyImageData ==
    /\ Derive
    /\ \E fn \in Fns :
          Step([name |-> "apply_image_data", fn |-> fn], apply_image_data(cur, fn))

AsType ==
    /\ Derive
    /\ \E dtype \in {"uint16", "float32", "float64"} :
          Step([name |-> "as_type", dtype |-> dtype],
               ImageSequence_as_type(cur, dtype))

Arith ==
    /\ Derive
    /\ \E op \in Ops : \E other \in {cur, MixedOperand} :
          Step([name |-> "sequence_arith", op |-> op],
               ImageSequence_arith(op, cur, other))

Next ==
    \/ Construct
    \/ ApplyImageData
    \/ AsType
    \/ Arith

Spec == Init /\ [][Next]_vars

(***************************************************************************)
(* Properties of the sequences a program holds (Spec).                     *)
(***************************************************************************)
OneValue(f, images) == \A i \in DOMAIN images : f[i] = f[1]

Dtypes(images) == [i \in DOMAIN images |-> Image_dtype(images[i])]
Shapes(images) == [i \in DOMAIN images |-> Image_shape(images[i])]
Modalities(images) == [i \in DOMAIN images |-> Image_modality(images[i])]
Cols(images) == [i \in DOMAIN images |-> images[i].attrs._cols]
Rows(images) == [i \in DOMAIN images |-> images[i].attrs._rows]

\* the flag a constructor call passes, or the default of the parameter
Flag(kw, name) == IF name \in DOMAIN kw THEN kw[name] ELSE FALSE

\* C1: every ImageSequence or ModuleImageSequence that exists, constructed or
\* derived, has one modality, one shape if same_camera and one dtype unless
\* allow_different_dtypes; a list of images violating this yields no
\* sequence: the construction ends the process.
C1_SequenceInvariants ==
    /\ (cur # None /\ cur.cls \in {"ImageSequence", "ModuleImageSequence"})
       => /\ OneValue(Modalities(cur.attrs._images), cur.attrs._images)
          /\ cur.attrs._same_camera
             => OneValue(Shapes(cur.attrs._images), cur.attrs._images)
          /\ ~cur.attrs._allow_different_dtypes
             => OneValue(Dtypes(cur.attrs._images), cur.attrs._images)
    /\ (call # None /\ call.name = "new"
          /\ call.cls \in {"ImageSequence", "ModuleImageSequence"}
          /\ \/ ~OneValue(Modalities(call.kw.images), call.kw.images)
             \/ /\ call.kw.same_camera
                /\ ~OneValue(Shapes(call.kw.images), call.kw.images)
             \/ /\ ~Flag(call.kw, "allow_different_dtypes")
                /\ ~OneValue(Dtypes(call.kw.images), call.kw.images))
       => pc = "exited" /\ cur = None /\ ret.out = "fatal"

C1_Witness ==
    /\ cur # None
    /\ cur.cls = "ModuleImageSequence"
    /\ Len(cur.attrs._images) = 2
    /\ cur.attrs._same_camera
    /\ ~cur.attrs._allow_different_dtypes
    /\ call.name = "sequence_arith"
    /\ steps = 2

\* C3: constructing a ModuleImageSequence from images that differ in cols or
\* in rows ends the process, and in every ModuleImageSequence that exists,
\* constructed or derived, all images have the same cols and the same rows.
C3_ModuleGeometry ==
    /\ (cur # None /\ cur.cls = "ModuleImageSequence")
       => /\ OneValue(Cols(cur.attrs._images), cur.attrs._images)
          /\ OneValue(Rows(cur.attrs._images), cur.attrs._images)
    /\ (call # None /\ call.name = "new" /\ call.cls = "ModuleImageSequence"
          /\ \/ ~OneValue(Cols(call.kw.images), call.kw.images)
             \/ ~OneValue(Rows(call.kw.images), call.kw.images))
       => pc = "exited" /\ cur = None /\ ret.out = "fatal"

C3_Witness ==
    /\ cur # None
    /\ cur.cls = "ModuleImageSequence"
    /\ Len(cur.attrs._images) = 2
    /\ call.name = "apply_image_data"
    /\ \E i \in 1..2 : cur.attrs._images[i].cls = "PartialModuleImage"


(***************************************************************************)
(* Object identity (SpecAlias).  heap is the store of mutable objects, an  *)
(* address is an index into it:                                            *)
(*   [kind |-> "ndarray", value]   [kind |-> "Path", value]                *)
(*   [kind |-> "Image", data, path, modality]   (data, path: addresses)    *)
(*   [kind |-> "list", items]                   (items: addresses)         *)
(* cur is the sequence object, its _images the address of its list.  held  *)
(* holds what accessors returned to the caller: the address returned and   *)
(* its owner, 0 for the sequence or the address of the image whose         *)
(* accessor returned it.                                                   *)
(***************************************************************************)
LoadImage(h, x) ==
    [data |-> h[h[x].data].value, path |-> h[h[x].path].value,
     modality |-> h[x].modality]

LoadList(h, l) == [i \in 1..Len(h[l].items) |-> LoadImage(h, h[l].items[i])]

\* fresh objects holding the image value v: its array, its path, the image
StoreImage(h, v) ==
    h \o << [kind |-> "ndarray", value |-> v.data],
            [kind |-> "Path", value |-> v.path],
            [kind |-> "Image", data |-> Len(h) + 1, path |-> Len(h) + 2,
             modality |-> v.modality] >>

\* fresh objects holding the list of image values vs; the list is the last
StoreList(h, vs) ==
    h \o [j \in 1..(3 * Len(vs) + 1) |->
            IF j = 3 * Len(vs) + 1
            THEN [kind |-> "list", items |-> [i \in 1..Len(vs) |-> Len(h) + 3 * i]]
            ELSE CASE (j - 1) % 3 = 0 ->
                        [kind |-> "ndarray", value |-> vs[(j - 1) \div 3 + 1].data]
                   [] (j - 1) % 3 = 1 ->
                        [kind |-> "Path", value |-> vs[(j - 1) \div 3 + 1].path]
                   [] (j - 1) % 3 = 2 ->
                        [kind |-> "Image", data |-> Len(h) + j - 2,
                         path |-> Len(h) + j - 1,
                         modality |-> vs[(j - 1) \div 3 + 1].modality]]

\* copy.deepcopy(x): a fresh copy of the object at x and of all it refers
\* to; the result is the heap and the address of the copy
deepcopy(h, x) ==
    CASE h[x].kind = "list"  ->
            [heap |-> StoreList(h, LoadList(h, x)),
             addr |-> Len(h) + 3 * Len(h[x].items) + 1]
      [] h[x].kind = "Image" ->
            [heap |-> StoreImage(h, LoadImage(h, x)), addr |-> Len(h) + 3]
      [] OTHER               -> [heap |-> Append(h, h[x]), addr |-> Len(h) + 1]

\* the images property returning the stored list itself
Heap_imagesNoCopy(h, self) == [heap |-> h, addr |-> self.attrs._images]

\* ImageSequence.images: deepcopy(self._images)
Heap_images(h, self) == deepcopy(h, self.attrs._images)

\* ImageSequence.__len__: len(self.images)
Heap_len(h, self) ==
    [heap |-> Heap_images(h, self).heap,
     value |-> Len(Heap_images(h, self).heap[Heap_images(h, self).addr].items)]

\* the tail of __getitem__: deepcopy(lst[i]) for the list copy r
Heap_getitem_of(r, i) == deepcopy(r.heap, r.heap[r.addr].items[i + 1])

\* ImageSequence.__getitem__: deepcopy(self.images[i])
Heap_getitem(h, self, i) == Heap_getitem_of(Heap_images(h, self), i)

\* Image.data: deepcopy(self._data)
Heap_data(h, x) == deepcopy(h, h[x].data)

\* Image.path: deepcopy(self._path)
Heap_path(h, x) == deepcopy(h, h[x].path)

\* the addresses reachable from the addresses in roots
Reach(h, roots) ==
    LET r1 == roots \cup UNION {Range(h[a].items) : a \in {b \in roots : h[b].kind = "list"}}
    IN  r1 \cup UNION {{h[a].data, h[a].path} : a \in {b \in r1 : h[b].kind = "Image"}}

\* what the caller can reach, and what the sequence holds
CallerReach == Reach(heap, {e.addr : e \in held})
Internal == Reach(heap, {cur.attrs._images})

\* the images of the sequence the caller works on
AliasImages ==
    << [data |-> DataU, path |-> "a.png", modality |-> Some(EL_IMAGE)],
       [data |-> DataU2, path |-> "b.png", modality |-> Some(EL_IMAGE)] >>

InitAlias ==
    /\ pc = "idle"
    /\ call = [name |-> "new"]
    /\ ret = None
    /\ received = None
    /\ heap = StoreList(<<>>, AliasImages)
    /\ cur = Object("ImageSequence",
                    [_images |-> 3 * Len(AliasImages) + 1, _same_camera |-> TRUE,
                     _allow_different_dtypes |-> FALSE])
    /\ steps = 0
    /\ held = {}

\* an accessor of owner returns the object at r.addr of the heap r.heap
Access(c, r, owner) ==
    /\ steps < MaxAccesses
    /\ steps' = steps + 1
    /\ call' = c
    /\ heap' = r.heap
    /\ ret' = Some(r.addr)
    /\ held' = held \cup {[addr |-> r.addr, owner |-> owner]}
    /\ UNCHANGED <<pc, received, cur>>

GetImages == Access([name |-> "images"], Heap_images(heap, cur), 0)

GetItem ==
    \E i \in 0..(Len(heap[cur.attrs._images].items) - 1) :
        Access([name |-> "getitem", i |-> i], Heap_getitem(heap, cur, i), 0)

GetLen ==
    /\ steps < MaxAccesses
    /\ steps' = steps + 1
    /\ call' = [name |-> "len"]
    /\ heap' = Heap_len(heap, cur).heap
    /\ ret' = Some(Heap_len(heap, cur).value)
    /\ UNCHANGED <<pc, received, cur, held>>

GetData ==
    \E x \in {a \in CallerReach : heap[a].kind = "Image"} :
        Access([name |-> "data", image |-> x], Heap_data(heap, x), x)

GetPath ==
    \E x \in {a \in CallerReach : heap[a].kind = "Image"} :
        Access([name |-> "path", image |-> x], Heap_path(heap, x), x)

\* the images whose accessor returned a root that a is reachable from
OwnersOf(a) ==
    {e.owner : e \in {f \in held : f.owner # 0 /\ a \in Reach(heap, {f.addr})}}

\* the caller changes, in place, the object at a, which it can reach
Mutation(a, object) ==
    /\ steps < MaxAccesses
    /\ steps' = steps + 1
    /\ object # heap[a]
    /\ heap' = [heap EXCEPT ![a] = object]
    /\ call' = [name |-> "mutate", addr |-> a,
                before |-> [x \in OwnersOf(a) |-> LoadImage(heap, x)]]
    /\ ret' = None
    /\ UNCHANGED <<pc, received, cur, held>>

\* array[0, k] = 9
MutateArray ==
    \E a \in {b \in CallerReach : heap[b].kind = "ndarray"} :
      \E k \in DOMAIN heap[a].value.vals :
        Mutation(a, [heap[a] EXCEPT !.value.vals[k] = <<9, 1>>])

\* list.pop()
MutateList ==
    \E a \in {b \in CallerReach : heap[b].kind = "list" /\ heap[b].items # <<>>} :
        Mutation(a, [heap[a] EXCEPT !.items = SubSeq(@, 1, Len(@) - 1)])

\* image._modality = PL_IMAGE
MutateImage ==
    \E a \in {b \in CallerReach : heap[b].kind = "Image"} :
        Mutation(a, [heap[a] EXCEPT !.modality = Some(PL_IMAGE)])

\* any in-place change of a returned path object
MutatePath ==
    \E a \in {b \in CallerReach : heap[b].kind = "Path"} :
        Mutation(a, [heap[a] EXCEPT !.value = "changed"])

NextAlias ==
    \/ GetImages
    \/ GetItem
    \/ GetLen
    \/ GetData
    \/ GetPath
    \/ MutateArray
    \/ MutateList
    \/ MutateImage
    \/ MutatePath

SpecAlias == InitAlias /\ [][NextAlias]_vars

\* C5: len(s) equals len(s.images); s.images[i] and s[i] equal the stored
\* image in value and are distinct objects; mutating anything an accessor
\* returned never changes what the sequence's or the image's accessors return.
C5_DefensiveCopies ==
    /\ LoadList(heap, cur.attrs._images) = AliasImages
    /\ call.name = "len" => ret = Some(Len(AliasImages))
    /\ call.name = "images"
       => /\ LoadList(heap, ret[1]) = AliasImages
          /\ Len(heap[ret[1]].items) = Len(AliasImages)
    /\ call.name = "getitem" => LoadImage(heap, ret[1]) = AliasImages[call.i + 1]
    /\ \A e \in held :
          /\ e.owner = 0 => Reach(heap, {e.addr}) \cap Internal = {}
          /\ e.owner # 0 => e.addr \notin {heap[e.owner].data, heap[e.owner].path}
    /\ call.name = "data"
       => heap[ret[1]].value = LoadImage(heap, call.image).data
    /\ call.name = "path"
       => heap[ret[1]].value = LoadImage(heap, call.image).path
    /\ call.name = "mutate"
       => \A x \in DOMAIN call.before : LoadImage(heap, x) = call.before[x]

C5_Witness ==
    /\ call.name = "mutate"
    /\ heap[call.addr].kind = "ndarray"
    /\ \E x \in DOMAIN call.before :
          heap[call.addr].value # LoadImage(heap, x).data


(***************************************************************************)
(* The bulk reader of io.py (SpecRead).  A directory maps the names of its *)
(* files to the arrays io.imread returns for them; a path is the name of   *)
(* the file.  received is the argument list of the constructor call that   *)
(* ends the reader, None when the reader does not get that far.            *)
(***************************************************************************)
\* the file names there are, in lexicographic order
FileNames == <<"a.png", "b.tif", "c.png", "d.bmp", "e.tif">>

Suffix(name) ==
    CASE name \in {"a.png", "c.png"} -> "png"
      [] name \in {"b.tif", "e.tif"} -> "tif"
      [] OTHER                       -> "bmp"

Rank(name) == CHOOSE i \in 1..Len(FileNames) : FileNames[i] = name

\* Path.glob(pat) for the patterns "*" and "*.<suffix>"; the directory lists
\* its entries in an order of its own, here the reverse of the sorted order
glob(dir, pat) ==
    SelectSeq([i \in 1..Len(FileNames) |-> FileNames[Len(FileNames) + 1 - i]],
              LAMBDA n : n \in DOMAIN dir /\ (pat = "*" \/ pat = "*." \o Suffix(n)))

\* reduce(lambda x, y: x+y, lists) for a non-empty list of lists
RECURSIVE reduce_concat(_)
reduce_concat(lists) ==
    IF Len(lists) = 1 THEN lists[1]
    ELSE reduce_concat(SubSeq(lists, 1, Len(lists) - 1)) \o lists[Len(lists)]

RECURSIVE InsertPath(_, _)
InsertPath(x, sorted) ==
    IF sorted = <<>> THEN <<x>>
    ELSE IF Rank(x) <= Rank(Head(sorted)) THEN <<x>> \o sorted
    ELSE <<Head(sorted)>> \o InsertPath(x, Tail(sorted))

\* list.sort() of paths
RECURSIVE sort(_)
sort(paths) ==
    IF paths = <<>> THEN <<>> ELSE InsertPath(Head(paths), sort(Tail(paths)))

\* imgpaths[:N] when 0 < N < len(imgpaths)
first_N(imgpaths, N) ==
    IF N > 0 /\ N < Len(imgpaths) THEN SubSeq(imgpaths, 1, N) ELSE imgpaths

\* the file selection of _read_module_images; a pattern given as a string is
\* a list of one pattern
imgpaths(dir, pattern, N) ==
    first_N(sort(reduce_concat([k \in 1..Len(pattern) |-> glob(dir, pattern[k])])), N)

\* io.imread(path, as_gray=True) and the big-endian conversion
imread(dir, path) ==
    IF dir[path].dtype = ">u2" THEN [dir[path] EXCEPT !.dtype = "uint16"]
    ELSE dir[path]

\* _read_module_image
read_module_image_(dir, path, modality, is_partial_module, cols, rows) ==
    New(IF is_partial_module THEN "PartialModuleImage" ELSE "ModuleImage",
        [data |-> imread(dir, path), modality |-> modality, path |-> path,
         cols |-> cols, rows |-> rows])

\* x < y for finite values
Less(x, y) == x[1] * y[2] < y[1] * x[2]

\* ndarray.min()
ArrayMin(arr) ==
    CHOOSE v \in Range(arr.vals) : \A w \in Range(arr.vals) : ~Less(w, v)

\* ndarray.astype(np.float64)
astype_float64(arr) == [arr EXCEPT !.dtype = "float64"]

\* np.full(target_shape, data.min(), dtype=data.dtype) with data pasted at
\* the top left
Padded(data, target_shape) ==
    Array(data.dtype, target_shape,
          [k \in 1..Size(target_shape) |->
             IF (k - 1) \div target_shape[2] < data.shape[1]
                /\ (k - 1) % target_shape[2] < data.shape[2]
             THEN data.vals[((k - 1) \div target_shape[2]) * data.shape[2]
                            + ((k - 1) % target_shape[2]) + 1]
             ELSE ArrayMin(data)])

homogeneous_types(imgs) ==
    \A i \in DOMAIN imgs : Image_dtype(imgs[i]) = Image_dtype(imgs[1])

homogeneous_shapes(imgs) ==
    \A i \in DOMAIN imgs : Image_shape(imgs[i]) = Image_shape(imgs[1])

\* np.max(shapes, axis=0) for a non-empty list of shapes
target_shape(imgs) ==
    << CHOOSE h \in {Image_shape(imgs[i])[1] : i \in DOMAIN imgs} :
         \A i \in DOMAIN imgs : Image_shape(imgs[i])[1] <= h,
       CHOOSE w \in {Image_shape(imgs[i])[2] : i \in DOMAIN imgs} :
         \A i \in DOMAIN imgs : Image_shape(imgs[i])[2] <= w >>

\* the data of one image after the resolution step
resolved_data(img, imgs) ==
    IF homogeneous_shapes(imgs)
    THEN (IF homogeneous_types(imgs) THEN Image_data(img)
          ELSE astype_float64(Image_data(img)))
    ELSE Padded(IF homogeneous_types(imgs) THEN Image_data(img)
                ELSE astype_float64(Image_data(img)),
                target_shape(imgs))

\* a resolution step that converts the dtypes but leaves the shapes alone
resolveTypesOnly(imgs, same_camera) ==
    IF same_camera \/ homogeneous_types(imgs) THEN Ok(imgs)
    ELSE Collect([i \in DOMAIN imgs |->
                    New("ModuleImage",
                        [data |-> astype_float64(Image_data(imgs[i])),
                         modality |-> Image_modality(imgs[i]),
                         path |-> Image_path(imgs[i]),
                         cols |-> ModuleImage_cols(imgs[i]),
                         rows |-> ModuleImage_rows(imgs[i])])])

\* the resolution step of _read_module_images: the images handed on
resolve(imgs, same_camera) ==
    IF same_camera THEN Ok(imgs)
    ELSE IF imgs = <<>> THEN Raise("ValueError")   \* np.max of no shapes
    ELSE IF homogeneous_types(imgs) /\ homogeneous_shapes(imgs) THEN Ok(imgs)
    ELSE Collect([i \in DOMAIN imgs |->
                    New("ModuleImage",
                        [data |-> resolved_data(imgs[i], imgs),
                         modality |-> Image_modality(imgs[i]),
                         path |-> Image_path(imgs[i]),
                         cols |-> ModuleImage_cols(imgs[i]),
                         rows |-> ModuleImage_rows(imgs[i])])])

\* the images read, one per selected path
read_all(c) ==
    Collect([i \in DOMAIN imgpaths(c.dir, c.pattern, c.N) |->
               read_module_image_(c.dir, imgpaths(c.dir, c.pattern, c.N)[i],
                                  c.modality, c.is_partial_module, c.cols, c.rows)])

\* the arguments of the constructor call that ends _read_module_images
constructor_arguments(c) ==
    Bind(Bind(read_all(c), LAMBDA imgs : resolve(imgs, c.same_camera)),
         LAMBDA imgs : Ok([images |-> imgs, copy |-> FALSE,
                           same_camera |-> c.same_camera,
                           allow_different_dtypes |-> c.allow_different_dtypes]))

\* _read_module_images
read_module_images_(c) ==
    Bind(constructor_arguments(c), LAMBDA kw : New("ModuleImageSequence", kw))

\* what the files of the directory hold
FileData ==
    { Array("uint8", <<1, 1>>, << <<255, 1>> >>),
      U16(<<1, 2>>, <<2, 3>>),
      Array(">u2", <<2, 1>>, << <<5, 1>>, <<1, 1>> >>),
      Array("float64", <<1, 1>>, << <<1, 2>> >>) }

Directories ==
    UNION {[S -> FileData] : S \in SUBSET {FileNames[i] : i \in 1..MaxFiles}}

Patterns == {<<"*.png">>, <<"*.tif">>, <<"*.png", "*.tif">>, <<"*.png", "*">>}

ReadCalls ==
    { [name |-> "read", dir |-> dir, pattern |-> pattern, N |-> N,
       same_camera |-> sc, allow_different_dtypes |-> ad,
       modality |-> Some(EL_IMAGE), cols |-> Some(2), rows |-> Some(1)] :
        dir \in Directories, pattern \in Patterns, N \in 0..MaxFiles,
        sc \in BOOLEAN, ad \in BOOLEAN }

InitRead ==
    /\ pc = "call"
    /\ call \in ReadCalls
    /\ ret = None
    /\ received = None
    /\ cur = None
    /\ steps = 0
    /\ heap = <<>>
    /\ held = {}

\* the reader is called with is_partial_module
Read(is_partial_module) ==
    /\ pc = "call"
    /\ call' = [call EXCEPT !.name = IF is_partial_module
                                     THEN "read_partial_module_images"
                                     ELSE "read_module_images"]
    /\ ret' = read_module_images_(call @@ [is_partial_module |-> is_partial_module])
    /\ received' = constructor_arguments(call @@ [is_partial_module |-> is_partial_module])
    /\ pc' = After(read_module_images_(call @@ [is_partial_module |-> is_partial_module]))
    /\ UNCHANGED <<cur, steps, heap, held>>

\* read_module_images
ReadModuleImages == Read(FALSE)

\* read_partial_module_images
ReadPartialModuleImages == Read(TRUE)

NextRead ==
    \/ ReadModuleImages
    \/ ReadPartialModuleImages

SpecRead == InitRead /\ [][NextRead]_vars


(***************************************************************************)
(* Properties of one call of the bulk reader (SpecRead).                   *)
(***************************************************************************)
\* the reader has run; the images it read from the selected files
HasRead == pc # "call"
ImagesRead ==
    read_all(call @@ [is_partial_module |->
                        call.name = "read_partial_module_images"]).val

\* the selection the reader is to make: every name, in lexicographic order,
\* once per pattern that matches it, cut to the first N when 0 < N < length
RECURSIVE Repeat(_, _)
Repeat(x, n) == IF n = 0 THEN <<>> ELSE <<x>> \o Repeat(x, n - 1)

RECURSIVE Selection(_, _, _)
Selection(dir, pattern, k) ==
    IF k = 0 THEN <<>>
    ELSE Selection(dir, pattern, k - 1)
           \o Repeat(FileNames[k],
                     IF FileNames[k] \in DOMAIN dir
                     THEN Cardinality({j \in 1..Len(pattern) :
                            pattern[j] = "*" \/ pattern[j] = "*." \o Suffix(FileNames[k])})
                     ELSE 0)

Selected(c) ==
    IF c.N > 0 /\ c.N < Len(Selection(c.dir, c.pattern, Len(FileNames)))
    THEN SubSeq(Selection(c.dir, c.pattern, Len(FileNames)), 1, c.N)
    ELSE Selection(c.dir, c.pattern, Len(FileNames))

\* C12: with same_camera=False, images of one dtype and differing shapes give
\* a sequence with shape None and the common dtype, each image padded to the
\* bounding shape with its content at the top left and its own minimum
\* elsewhere, and with its modality, path, cols and rows kept.
C12_PaddedToBoundingShape ==
    (HasRead /\ ~call.same_camera /\ ImagesRead # <<>>
       /\ homogeneous_types(ImagesRead) /\ ~homogeneous_shapes(ImagesRead))
    => /\ ret.out = "ok"
       /\ ImageSequence_shape(ret.val) = None
       /\ ImageSequence_dtype(ret.val) = Some(Image_dtype(ImagesRead[1]))
       /\ ImageSequence_len(ret.val) = Len(ImagesRead)
       /\ \A i \in DOMAIN ImagesRead :
             LET old == ImagesRead[i]
                 new == ImageSequence_images(ret.val)[i]
             IN  /\ Image_shape(new) = target_shape(ImagesRead)
                 /\ \A r \in 0..(Image_shape(new)[1] - 1) :
                    \A c \in 0..(Image_shape(new)[2] - 1) :
                       Image_data(new).vals[r * Image_shape(new)[2] + c + 1]
                         = IF r < Image_shape(old)[1] /\ c < Image_shape(old)[2]
                           THEN Image_data(old).vals[r * Image_shape(old)[2] + c + 1]
                           ELSE ArrayMin(Image_data(old))
                 /\ Image_modality(new) = Image_modality(old)
                 /\ Image_path(new) = Image_path(old)
                 /\ ModuleImage_cols(new) = ModuleImage_cols(old)
                 /\ ModuleImage_rows(new) = ModuleImage_rows(old)

\* C13: with same_camera=False, images of differing dtypes give a sequence
\* whose dtype is None and whose images all hold float64 data.
C13_MixedDtypesBecomeFloat64 ==
    (HasRead /\ ~call.same_camera /\ ImagesRead # <<>>
       /\ ~homogeneous_types(ImagesRead))
    => /\ ret.out = "ok"
       /\ ImageSequence_dtype(ret.val) = None
       /\ \A i \in DOMAIN ImageSequence_images(ret.val) :
             Image_dtype(ImageSequence_images(ret.val)[i]) = "float64"

\* C14: the reader selects the paths of all patterns without de-duplication,
\* sorted and cut to the first N, and for a non-empty selection that satisfies
\* the sequence invariants returns a ModuleImageSequence of one image per
\* selected path, in that order, with the caller's same_camera and
\* allow_different_dtypes.
C14_SelectionAndResult ==
    (HasRead /\ Selected(call) # <<>> /\ received.out = "ok"
       /\ ModuleImageSequence__init__(received.val.images, call.same_camera,
                                      call.allow_different_dtypes).out = "ok")
    => /\ ret.out = "ok"
       /\ ret.val.cls = "ModuleImageSequence"
       /\ [i \in DOMAIN ImageSequence_images(ret.val) |->
             Image_path(ImageSequence_images(ret.val)[i])] = Selected(call)
       /\ ret.val.attrs._same_camera = call.same_camera
       /\ ret.val.attrs._allow_different_dtypes = call.allow_different_dtypes

\* C16: with same_camera=False the images the reader hands to the
\* ModuleImageSequence constructor have one shape and one dtype, whatever the
\* shapes and dtypes read and whatever allow_different_dtypes, so that the
\* constructor's checks do not end the process.
C16_HandedImagesUniform ==
    (HasRead /\ ~call.same_camera)
    => /\ ret.out # "fatal"
       /\ received.out = "ok"
          => /\ received.val.images # <<>>
             /\ Len(received.val.images) = Len(ImagesRead)
             /\ OneValue(Shapes(received.val.images), received.val.images)
             /\ OneValue(Dtypes(received.val.images), received.val.images)
             /\ ModuleImageSequence__init__(received.val.images, FALSE,
                                            call.allow_different_dtypes).out = "ok"

C16_Witness ==
    /\ HasRead
    /\ ~call.same_camera
    /\ ~call.allow_different_dtypes
    /\ received.out = "ok"
    /\ Len(ImagesRead) = 3
    /\ ~homogeneous_types(ImagesRead)
    /\ ~homogeneous_shapes(ImagesRead)
    /\ Image_shape(received.val.images[1]) = <<2, 2>>


====
